---- MODULE Spec2Model ----
(***************************************************************************)
(* ImageCausalModel (src/src/modelmodule/modelmodule.py): the shared       *)
(* forward pass with its gated, masked losses, the per-epoch accumulators  *)
(* Q0s / Q1s / losses, and the epoch-end hooks that consume them.          *)
(*                                                                         *)
(* Conventions.  Tensors are sequences (1-D) or sequences of rows (2-D);   *)
(* Python index k is position k+1.  Probabilities are held in percent and  *)
(* losses in hundredths of a bit; every division rounds down to that       *)
(* resolution.  Logits are integers and the exponential is taken to base   *)
(* 2, i.e. logits are measured in units of ln 2.  A loss value carries its *)
(* Python type: the gate's literal 0.0 is a float, a cross-entropy is a    *)
(* tensor (possibly NaN).                                                  *)
(***************************************************************************)
EXTENDS Integers, Sequences, FiniteSets, TLC

VARIABLES cfg, params, Q0s, Q1s, losses, call, batch, out, ret, logged, exc,
          epoch, seen

vars == <<cfg, params, Q0s, Q1s, losses, call, batch, out, ret, logged, exc,
          epoch, seen>>

(***************************************************************************)
(* Bounds of the model.                                                    *)
(***************************************************************************)
MaxBatch == 2          \* examples per batch
MaxExamples == 4       \* examples processed by the steps of one run
Hidden == 2            \* width of the Q heads' hidden layer (200 in the source)
Labels == {2, 3}       \* configured values of cfg.num_labels
Seeds == {0, 1}        \* parameter settings of the three heads

(***************************************************************************)
(* Sentinels of the source.                                                *)
(***************************************************************************)
Unobserved == -1
IgnoreIndex == -100

(***************************************************************************)
(* Sequence helpers.                                                       *)
(***************************************************************************)
RECURSIVE SumSeq(_)
SumSeq(s) == IF s = <<>> THEN 0 ELSE Head(s) + SumSeq(Tail(s))

RECURSIVE Pow2(_)
Pow2(n) == IF n <= 0 THEN 1 ELSE 2 * Pow2(n - 1)

RECURSIVE FloorLog2(_)
FloorLog2(x) == IF x < 2 THEN 0 ELSE 1 + FloorLog2(x \div 2)

\* 100 * log2(x) for an integer x >= 1, linear between powers of two.
Log2c(x) ==
  LET n == FloorLog2(x)
  IN  100 * n + (100 * (x - Pow2(n))) \div Pow2(n)

MinOf(s) == CHOOSE m \in {s[k] : k \in DOMAIN s} : \A k \in DOMAIN s : m <= s[k]

(***************************************************************************)
(* Loss values: Python float or torch tensor.                              *)
(***************************************************************************)
PyFloat(v) == [kind |-> "float", nan |-> FALSE, val |-> v]
Tensor(v) == [kind |-> "tensor", nan |-> FALSE, val |-> v]
NaN == [kind |-> "tensor", nan |-> TRUE, val |-> 0]

\* weight * x, the weight a Python number from the configuration
Scale(w, x) == [x EXCEPT !.val = IF x.nan THEN 0 ELSE w * x.val]

\* x + y
Plus(x, y) ==
  [kind |-> IF x.kind = "tensor" \/ y.kind = "tensor" THEN "tensor" ELSE "float",
   nan |-> x.nan \/ y.nan,
   val |-> IF x.nan \/ y.nan THEN 0 ELSE x.val + y.val]


(***************************************************************************)
(* Batches: (images, confounds, treatment, outcome), one entry per example.*)
(***************************************************************************)
Images == {0, 1}
Treatments == {0, 1}
Outcomes == {Unobserved, 0, 1}

MkBatch(ex) ==
  [images |-> [i \in DOMAIN ex |-> ex[i][1]],
   confounds |-> [i \in DOMAIN ex |-> ex[i][2]],
   treatment |-> [i \in DOMAIN ex |-> ex[i][3]],
   outcome |-> [i \in DOMAIN ex |-> ex[i][4]]]

Examples(L) == Images \X (0..(L - 1)) \X Treatments \X Outcomes

Batches(L) ==
  {MkBatch(ex) : ex \in UNION {[1..n -> Examples(L)] : n \in 1..MaxBatch}}

NoBatch == MkBatch(<<>>)

(***************************************************************************)
(* The backbone and the three heads.  The backbone is external: an image   *)
(* is identified with the embedding it is mapped to.  The heads' weights   *)
(* are a function of the parameter setting p = [w, b]; b = 0 is the zero   *)
(* bias init_weights leaves.                                               *)
(***************************************************************************)
base_model(images) == [i \in DOMAIN images |-> <<2 * images[i] - 1>>]

num_features == Len(base_model(<<0>>)[1])

Weight(p, layer, r, c) == ((p.w * (layer + r) + layer * c + r + c) % 3) - 1

Bias(p, layer, r) == p.b * (((layer + r) % 3) - 1)

Linear(p, layer, x, nOut) ==
  [r \in 1..nOut |->
     SumSeq([c \in 1..Len(x) |-> Weight(p, layer, r, c) * x[c]]) + Bias(p, layer, r)]

ReLU(x) == [k \in DOMAIN x |-> IF x[k] > 0 THEN x[k] ELSE 0]

\* self.g_cls = nn.Linear(num_features + num_labels, num_labels)
g_cls(p, x, L) == Linear(p, 0, x, L)

\* self.Q_cls['T'] = Sequential(Linear(input_size, 200), ReLU(), Linear(200, num_labels))
Q_cls(p, T, x, L) == Linear(p, 2 + 2 * T, ReLU(Linear(p, 1 + 2 * T, x, Hidden)), L)

\* torch.nn.Softmax(dim = 1)(logits)[:, 1]
SoftmaxCol1(logits) ==
  [i \in DOMAIN logits |->
     LET l == logits[i]
         m == MinOf(l)
     IN  (100 * Pow2(l[2] - m)) \div SumSeq([k \in DOMAIN l |-> Pow2(l[k] - m)])]

\* -log softmax(l)[y], in hundredths of a bit
NLL(l, y) ==
  LET m == MinOf(l)
  IN  Log2c(SumSeq([k \in DOMAIN l |-> Pow2(l[k] - m)])) - 100 * (l[y + 1] - m)

\* CrossEntropyLoss()(logits, labels) accepts a label that is ignore_index or
\* a class of the logits, and raises on any other.
TargetsInRange(labels, L) ==
  \A i \in DOMAIN labels : labels[i] = IgnoreIndex \/ labels[i] \in 0..(L - 1)

\* CrossEntropyLoss()(logits, labels): the mean over the labels other than
\* ignore_index, NaN when there is none
CrossEntropyLoss(logits, labels) ==
  LET kept == {i \in DOMAIN labels : labels[i] \in 0..(Len(logits[i]) - 1)}
      terms == [i \in DOMAIN labels |->
                  IF i \in kept THEN NLL(logits[i], labels[i]) ELSE 0]
  IN  IF kept = {} THEN NaN ELSE Tensor(SumSeq(terms) \div Cardinality(kept))

(***************************************************************************)
(* _make_confound_vector(ids, vocab_size, use_counts = False)              *)
(***************************************************************************)
\* vec.scatter_add_(1, ids, ones)
ScatterAdd1(vec, ids) ==
  [i \in DOMAIN vec |->
     [k \in DOMAIN vec[i] |->
        vec[i][k] + Cardinality({c \in DOMAIN ids[i] : ids[i][c] + 1 = k})]]

\* Variant: the ids are scattered into the vector after index 1 is zeroed.
make_confound_vector_scatter(ids, vocab_size, use_counts) ==
  LET zeros == [i \in DOMAIN ids |-> [k \in 1..vocab_size |-> 0]]
      vec == ScatterAdd1([i \in DOMAIN zeros |-> [zeros[i] EXCEPT ![2] = 0]], ids)
  IN  IF ~use_counts
      THEN [i \in DOMAIN vec |-> [k \in DOMAIN vec[i] |-> IF vec[i][k] # 0 THEN 1 ELSE 0]]
      ELSE vec

\* Variant: the ids are scattered into the vector before index 1 is zeroed.
make_confound_vector_bow(ids, vocab_size, use_counts) ==
  LET zeros == [i \in DOMAIN ids |-> [k \in 1..vocab_size |-> 0]]
      added == ScatterAdd1(zeros, ids)
      vec == [i \in DOMAIN added |-> [added[i] EXCEPT ![2] = 0]]
  IN  IF ~use_counts
      THEN [i \in DOMAIN vec |-> [k \in DOMAIN vec[i] |-> IF vec[i][k] # 0 THEN 1 ELSE 0]]
      ELSE vec

make_confound_vector(ids, vocab_size, use_counts) ==
  LET zeros == [i \in DOMAIN ids |-> [k \in 1..vocab_size |-> 0]]
      vec == [i \in DOMAIN zeros |-> [zeros[i] EXCEPT ![2] = 0]]
  IN  IF ~use_counts
      THEN [i \in DOMAIN vec |-> [k \in DOMAIN vec[i] |-> IF vec[i][k] # 0 THEN 1 ELSE 0]]
      ELSE vec

\* confounds.unsqueeze(1)
Unsqueeze1(t) == [i \in DOMAIN t |-> <<t[i]>>]

(***************************************************************************)
(* Index tensors: (mask).nonzero().squeeze() and Tensor.scatter.           *)
(***************************************************************************)
\* (mask).nonzero(): one row <<index>> per true position, shape [k, 1]
RECURSIVE Nonzero(_, _)
Nonzero(mask, i) ==
  IF i > Len(mask) THEN <<>>
  ELSE (IF mask[i] THEN << <<i - 1>> >> ELSE <<>>) \o Nonzero(mask, i + 1)

\* .squeeze(): drops every dimension of size 1, so [1, 1] becomes 0-dimensional
Squeeze(rows) ==
  [dim |-> IF Len(rows) = 1 THEN 0 ELSE 1,
   data |-> [k \in DOMAIN rows |-> rows[k][1]]]

\* Variant: a 0-dimensional index is rejected like an index of any other
\* dimension than self's.
ScatterStrict(self, index, value) ==
  IF Len(index.data) = 0 THEN [ok |-> TRUE, val |-> self]
  ELSE IF index.dim # 1
       THEN [ok |-> FALSE, val |-> self]
       ELSE [ok |-> TRUE,
             val |-> [i \in DOMAIN self |->
                        IF \E k \in DOMAIN index.data : index.data[k] = i - 1
                        THEN value ELSE self[i]]]

\* self.scatter(0, index, value) on a 1-D self.  An empty index changes
\* nothing; a 0-dimensional index counts as 1-dimensional.
Scatter(self, index, value) ==
  IF Len(index.data) = 0 THEN [ok |-> TRUE, val |-> self]
  ELSE IF (IF index.dim = 0 THEN 1 ELSE index.dim) # 1
       THEN [ok |-> FALSE, val |-> self]
       ELSE [ok |-> TRUE,
             val |-> [i \in DOMAIN self |->
                        IF \E k \in DOMAIN index.data : index.data[k] = i - 1
                        THEN value ELSE self[i]]]


(***************************************************************************)
(* __share_step(batch, batch_idx): the forward pass shared by every step.  *)
(* The result holds the five returned values, the locals C, g,             *)
(* Q_logits_T0, Q_logits_T1, Y_T0_labels and Y_T1_labels, and the          *)
(* exception raised ("none" when it returns).                              *)
(***************************************************************************)
\* Variant: torch.any(outcome != -1)
AnyObserved(outcome) == \E i \in DOMAIN outcome : outcome[i] # Unobserved

\* torch.all(outcome != -1)
FullyObserved(outcome) == \A i \in DOMAIN outcome : outcome[i] # Unobserved

share_step(b, p, c) ==
  LET L == c.num_labels
      features == base_model(b.images)
      C == make_confound_vector(Unsqueeze1(b.confounds), L, FALSE)
      inputs == [i \in DOMAIN features |-> features[i] \o C[i]]
      g == [i \in DOMAIN inputs |-> g_cls(p, inputs[i], L)]
      observed == FullyObserved(b.outcome)
      Q_logits_T0 == [i \in DOMAIN inputs |-> Q_cls(p, 0, inputs[i], L)]
      Q_logits_T1 == [i \in DOMAIN inputs |-> Q_cls(p, 1, inputs[i], L)]
      T0_indices == Squeeze(Nonzero([i \in DOMAIN b.treatment |-> b.treatment[i] = 0], 1))
      Y_T1 == Scatter(b.outcome, T0_indices, IgnoreIndex)
      T1_indices == Squeeze(Nonzero([i \in DOMAIN b.treatment |-> b.treatment[i] = 1], 1))
      Y_T0 == Scatter(b.outcome, T1_indices, IgnoreIndex)
      scattered == Y_T1.ok /\ Y_T0.ok
      inRange == /\ TargetsInRange(b.treatment, L)
                 /\ TargetsInRange(Y_T1.val, L)
                 /\ TargetsInRange(Y_T0.val, L)
      raised == observed /\ ~(scattered /\ inRange)
  IN  [g_prob |-> SoftmaxCol1(g),
       Q_prob_T0 |-> SoftmaxCol1(Q_logits_T0),
       Q_prob_T1 |-> SoftmaxCol1(Q_logits_T1),
       g_loss |-> IF observed THEN CrossEntropyLoss(g, b.treatment) ELSE PyFloat(0),
       Q_loss |-> IF observed /\ ~raised
                  THEN Plus(CrossEntropyLoss(Q_logits_T1, Y_T1.val),
                            CrossEntropyLoss(Q_logits_T0, Y_T0.val))
                  ELSE PyFloat(0),
       C |-> C,
       g |-> g,
       Q_logits_T0 |-> Q_logits_T0,
       Q_logits_T1 |-> Q_logits_T1,
       Y_T0_labels |-> IF observed /\ ~raised THEN Y_T0.val ELSE <<>>,
       Y_T1_labels |-> IF observed /\ ~raised THEN Y_T1.val ELSE <<>>,
       exc |-> IF ~raised THEN "none"
               ELSE IF ~scattered THEN "RuntimeError" ELSE "IndexError"]

NoOut ==
  [g_prob |-> <<>>, Q_prob_T0 |-> <<>>, Q_prob_T1 |-> <<>>,
   g_loss |-> PyFloat(0), Q_loss |-> PyFloat(0),
   C |-> <<>>, g |-> <<>>, Q_logits_T0 |-> <<>>, Q_logits_T1 |-> <<>>,
   Y_T0_labels |-> <<>>, Y_T1_labels |-> <<>>, exc |-> "none"]

(***************************************************************************)
(* Configuration and parameters.                                           *)
(***************************************************************************)
\* cfg.num_labels, cfg.loss_weights.g, cfg.loss_weights.Q
Cfgs == {[num_labels |-> L, g |-> 1, Q |-> 2] : L \in Labels}

\* init_weights: Xavier-uniform weights, zero biases
InitParams == [w : Seeds, b : {0}]

Params == [w : Seeds, b : {0, 1}]

NoEpoch == [kind |-> "none", rows |-> <<>>]

(***************************************************************************)
(* Return values of the hooks, and log entries.                            *)
(***************************************************************************)
None == [kind |-> "None", loss |-> PyFloat(0), probs |-> <<>>, preds |-> <<>>]
RetLoss(x) == [None EXCEPT !.kind = "loss", !.loss = x]
RetTuple(probs, preds) == [None EXCEPT !.kind = "tuple", !.probs = probs, !.preds = preds]
RetDict(probs, preds) == [None EXCEPT !.kind = "dict", !.probs = probs, !.preds = preds]

Log(name, value) == [name |-> name, value |-> value]

\* __init__
Constructed ==
  /\ Q0s = <<>>
  /\ Q1s = <<>>
  /\ losses = <<>>
  /\ call = "__init__"
  /\ out = NoOut
  /\ ret = None
  /\ logged = <<>>
  /\ exc = "none"
  /\ epoch = NoEpoch
  /\ seen = 0

(***************************************************************************)
(* The forward pass on its own: every configuration, parameter setting and *)
(* batch, and one call of forward.                                         *)
(***************************************************************************)
InitStep ==
  /\ cfg \in Cfgs
  /\ params \in InitParams
  /\ batch \in Batches(cfg.num_labels)
  /\ Constructed

\* forward(batch, batch_idx)
forward ==
  /\ call = "__init__"
  /\ call' = "forward"
  /\ out' = share_step(batch, params, cfg)
  /\ exc' = out'.exc
  /\ UNCHANGED <<cfg, params, Q0s, Q1s, losses, batch, ret, logged, epoch, seen>>

NextStep == forward

SpecStep == InitStep /\ [][NextStep]_vars


(***************************************************************************)
(* torch and numpy operations of the epoch-end hooks.                      *)
(***************************************************************************)
\* torch.stack(xs).mean(): every element must be a tensor, and there must be one
StackMean(xs) ==
  IF xs = <<>> THEN [exc |-> "RuntimeError", val |-> NaN]
  ELSE IF \E k \in DOMAIN xs : xs[k].kind # "tensor"
       THEN [exc |-> "TypeError", val |-> NaN]
       ELSE IF \E k \in DOMAIN xs : xs[k].nan
            THEN [exc |-> "none", val |-> NaN]
            ELSE [exc |-> "none",
                  val |-> Tensor(SumSeq([k \in DOMAIN xs |-> xs[k].val]) \div Len(xs))]

\* np.array(list(zip(a, b)))
Zip(a, b) ==
  [i \in 1..(IF Len(a) < Len(b) THEN Len(a) ELSE Len(b)) |-> <<a[i], b[i]>>]

\* Variant: the last index holding the maximum.
ArgmaxRowLast(row) ==
  (CHOOSE k \in DOMAIN row :
     /\ \A j \in DOMAIN row : row[j] <= row[k]
     /\ \A j \in DOMAIN row : j > k => row[j] < row[k]) - 1

\* np.argmax(row): the first index holding the maximum
ArgmaxRow(row) ==
  (CHOOSE k \in DOMAIN row :
     /\ \A j \in DOMAIN row : row[j] <= row[k]
     /\ \A j \in DOMAIN row : j < k => row[j] < row[k]) - 1

\* np.argmax(probs, axis = 1); an empty list of pairs is a 1-D array without axis 1
Argmax1(probs) ==
  IF probs = <<>> THEN [exc |-> "AxisError", val |-> <<>>]
  ELSE [exc |-> "none", val |-> [i \in DOMAIN probs |-> ArgmaxRow(probs[i])]]

\* Variant: np.mean(probs[:, 1] - probs[:, 0])
ATE_T1MinusT0(probs) ==
  LET Q0 == [i \in DOMAIN probs |-> probs[i][1]]
      Q1 == [i \in DOMAIN probs |-> probs[i][2]]
  IN  SumSeq([i \in DOMAIN probs |-> Q1[i] - Q0[i]]) \div Len(probs)

\* ATE(probs): np.mean(probs[:, 0] - probs[:, 1])
ATE(probs) ==
  LET Q0 == [i \in DOMAIN probs |-> probs[i][1]]
      Q1 == [i \in DOMAIN probs |-> probs[i][2]]
  IN  SumSeq([i \in DOMAIN probs |-> Q0[i] - Q1[i]]) \div Len(probs)

(***************************************************************************)
(* The hooks, called by the training framework.  A hook that raises ends   *)
(* the run: no hook is called after it.                                    *)
(***************************************************************************)
Running == exc = "none"

\* The evaluation epoch in progress (kind) and the rows (Q_prob_T0, Q_prob_T1)
\* its steps produced; after its epoch-end hook the rows stay until the next
\* evaluation step opens a new epoch.
StepOf(kind, o) ==
  [kind |-> kind,
   rows |-> (IF epoch.kind = "none" THEN <<>> ELSE epoch.rows)
            \o Zip(o.Q_prob_T0, o.Q_prob_T1)]

EndOf(e) == [kind |-> "none", rows |-> IF e.kind = "none" THEN <<>> ELSE e.rows]

Fits(b) == seen + Len(b.images) <= MaxExamples

TotalLoss(o) == Plus(Scale(cfg.g, o.g_loss), Scale(cfg.Q, o.Q_loss))

\* The data set of a run, and the batches its data loaders deliver.
Dataset == {<<0, 0, 0, 1>>, <<1, 1, 1, 0>>, <<1, 0, 0, Unobserved>>}

EpochBatches ==
  {MkBatch(ex) : ex \in UNION {[1..n -> Dataset] : n \in 1..MaxBatch}}

training_step(b) ==
  /\ Running /\ Fits(b)
  /\ out' = share_step(b, params, cfg)
  /\ exc' = out'.exc
  /\ IF out'.exc = "none"
     THEN /\ ret' = RetLoss(TotalLoss(out'))
          /\ logged' = <<Log("g_loss", out'.g_loss), Log("Q_loss", out'.Q_loss),
                         Log("train_loss", ret'.loss)>>
          /\ losses' = Append(losses, ret'.loss)
     ELSE /\ logged' = <<>>
                 /\ ret' = None
                 /\ UNCHANGED losses
  /\ call' = "training_step"
  /\ batch' = b
  /\ seen' = seen + Len(b.images)
  /\ UNCHANGED <<cfg, params, Q0s, Q1s, epoch>>

\* Variant: the hook resets every accumulator of the model.
on_train_epoch_end_reset_all ==
  /\ Running /\ epoch.kind = "none"
  /\ LET m == StackMean(losses)
     IN  /\ exc' = m.exc
         /\ IF m.exc = "none"
            THEN /\ logged' = <<Log("train_epoch_loss", m.val)>>
                 /\ losses' = <<>>
                 /\ Q0s' = <<>>
                 /\ Q1s' = <<>>
            ELSE /\ logged' = <<>>
                 /\ UNCHANGED <<losses, Q0s, Q1s>>
  /\ call' = "on_train_epoch_end"
  /\ batch' = NoBatch
  /\ out' = NoOut
  /\ ret' = None
  /\ UNCHANGED <<cfg, params, epoch, seen>>

on_train_epoch_end ==
  /\ Running /\ epoch.kind = "none"
  /\ LET m == StackMean(losses)
     IN  /\ exc' = m.exc
         /\ IF m.exc = "none"
            THEN /\ logged' = <<Log("train_epoch_loss", m.val)>>
                 /\ losses' = <<>>
            ELSE /\ logged' = <<>>
                 /\ UNCHANGED losses
  /\ call' = "on_train_epoch_end"
  /\ batch' = NoBatch
  /\ out' = NoOut
  /\ ret' = None
  /\ UNCHANGED <<cfg, params, Q0s, Q1s, epoch, seen>>

validation_step(b) ==
  /\ Running /\ Fits(b)
  /\ epoch.kind \in {"none", "validation"}
  /\ out' = share_step(b, params, cfg)
  /\ exc' = out'.exc
  /\ IF out'.exc = "none"
     THEN /\ Q0s' = Q0s \o out'.Q_prob_T0
          /\ Q1s' = Q1s \o out'.Q_prob_T1
          /\ ret' = RetLoss(TotalLoss(out'))
          /\ logged' = <<Log("val_loss", ret'.loss)>>
          /\ epoch' = StepOf("validation", out')
     ELSE /\ logged' = <<>>
          /\ ret' = None
          /\ UNCHANGED <<Q0s, Q1s, epoch>>
  /\ call' = "validation_step"
  /\ batch' = b
  /\ seen' = seen + Len(b.images)
  /\ UNCHANGED <<cfg, params, losses>>

on_validation_epoch_end ==
  /\ Running /\ epoch.kind \in {"none", "validation"}
  /\ LET probs == Zip(Q0s, Q1s)
         preds == Argmax1(probs)
     IN  /\ exc' = preds.exc
         /\ ret' = IF preds.exc = "none" THEN RetTuple(probs, preds.val) ELSE None
  /\ call' = "on_validation_epoch_end"
  /\ batch' = NoBatch
  /\ out' = NoOut
  /\ logged' = <<>>
  /\ epoch' = EndOf(epoch)
  /\ UNCHANGED <<cfg, params, Q0s, Q1s, losses, seen>>

predict_step(b) ==
  /\ Running /\ Fits(b)
  /\ epoch.kind \in {"none", "predict"}
  /\ out' = share_step(b, params, cfg)
  /\ exc' = out'.exc
  /\ IF out'.exc = "none"
     THEN /\ Q0s' = Q0s \o out'.Q_prob_T0
          /\ Q1s' = Q1s \o out'.Q_prob_T1
          /\ epoch' = StepOf("predict", out')
     ELSE UNCHANGED <<Q0s, Q1s, epoch>>
  /\ call' = "predict_step"
  /\ batch' = b
  /\ logged' = <<>>
  /\ ret' = None
  /\ seen' = seen + Len(b.images)
  /\ UNCHANGED <<cfg, params, losses>>

on_predict_epoch_end ==
  /\ Running /\ epoch.kind \in {"none", "predict"}
  /\ LET probs == Zip(Q0s, Q1s)
         preds == Argmax1(probs)
     IN  /\ exc' = preds.exc
         /\ IF preds.exc = "none"
            THEN /\ logged' = <<Log("ATE", PyFloat(ATE(probs)))>>
                 /\ ret' = RetDict(probs, preds.val)
            ELSE /\ logged' = <<>>
                 /\ ret' = None
  /\ call' = "on_predict_epoch_end"
  /\ batch' = NoBatch
  /\ out' = NoOut
  /\ epoch' = EndOf(epoch)
  /\ UNCHANGED <<cfg, params, Q0s, Q1s, losses, seen>>

\* The framework's backward pass and optimizer step on the tensor returned
\* by training_step: the parameters of the heads change.
optimizer_step ==
  /\ Running
  /\ call = "training_step" /\ ret.kind = "loss"
  /\ ret.loss.kind = "tensor" /\ ~ret.loss.nan
  /\ \E p \in Params : p # params /\ params' = p
  /\ call' = "optimizer_step"
  /\ UNCHANGED <<cfg, Q0s, Q1s, losses, batch, out, ret, logged, exc, epoch, seen>>

Init ==
  /\ cfg \in Cfgs
  /\ params \in InitParams
  /\ batch = NoBatch
  /\ Constructed

Next ==
  \/ \E b \in EpochBatches : training_step(b)
  \/ on_train_epoch_end
  \/ \E b \in EpochBatches : validation_step(b)
  \/ on_validation_epoch_end
  \/ \E b \in EpochBatches : predict_step(b)
  \/ on_predict_epoch_end
  \/ optimizer_step

Spec == Init /\ [][Next]_vars

(***************************************************************************)
(* Properties.                                                             *)
(***************************************************************************)
Steps == {"training_step", "validation_step", "predict_step"}

EvalEnds == {"on_validation_epoch_end", "on_predict_epoch_end"}

\* C1: after an epoch-end hook has returned, its accumulators are empty:
\* losses after on_train_epoch_end, Q0s and Q1s after
\* on_validation_epoch_end and on_predict_epoch_end.
C1_EpochEndClears ==
  exc = "none" =>
    /\ call = "on_train_epoch_end" => losses = <<>>
    /\ call \in EvalEnds => Q0s = <<>> /\ Q1s = <<>>

\* C2: probs returned by on_predict_epoch_end after a predict epoch of one
\* or more steps holds exactly the rows of the examples that epoch
\* processed, in step order, whatever epochs came before.
C2_ProbsOfThisEpoch ==
  (call = "on_predict_epoch_end" /\ exc = "none" /\ epoch.rows # <<>>) =>
    ret.probs = epoch.rows

\* C3: the ATE logged by on_predict_epoch_end is the mean over the
\* accumulated pairs (at least one) of Q0s[i] - Q1s[i], in that sign, at the
\* resolution of the model; the pairs (0.8, 0.3), (0.6, 0.5) give 0.3.
C3_AteIsMeanDifference ==
  /\ ATE(<< <<80, 30>>, <<60, 50>> >>) = 30
  /\ call = "on_predict_epoch_end" /\ exc = "none" =>
       LET N == Len(Q0s)
           S == SumSeq([i \in 1..N |-> Q0s[i] - Q1s[i]])
       IN  /\ N >= 1 /\ Len(Q1s) = N
           /\ Len(logged) = 1
           /\ logged[1].name = "ATE"
           /\ ~logged[1].value.nan
           /\ logged[1].value.val * N <= S
           /\ S < logged[1].value.val * N + N

C3_Witness ==
  /\ call = "on_predict_epoch_end" /\ exc = "none"
  /\ Len(Q0s) >= 2
  /\ \E i \in DOMAIN Q0s : Q0s[i] > Q1s[i]
  /\ \E i \in DOMAIN Q0s : Q0s[i] < Q1s[i]
  /\ logged[1].value.val # 0

\* C4: in every step g_loss and Q_loss are the number 0 when some outcome of
\* the batch is -1, and are the cross-entropies of the heads' logits when no
\* outcome is -1; one unobserved example switches both off for the batch.
C4_BatchGate ==
  call \in Steps \cup {"forward"} =>
    IF \E i \in DOMAIN batch.outcome : batch.outcome[i] = Unobserved
    THEN out.g_loss = PyFloat(0) /\ out.Q_loss = PyFloat(0)
    ELSE /\ exc = "none"
         /\ out.g_loss = CrossEntropyLoss(out.g, batch.treatment)
         /\ out.Q_loss = Plus(CrossEntropyLoss(out.Q_logits_T1, out.Y_T1_labels),
                              CrossEntropyLoss(out.Q_logits_T0, out.Y_T0_labels))
         /\ out.g_loss.kind = "tensor" /\ out.Q_loss.kind = "tensor"

C4_Witness ==
  /\ call \in Steps /\ exc = "none"
  /\ \E i \in DOMAIN batch.outcome : batch.outcome[i] = Unobserved
  /\ \E i \in DOMAIN batch.outcome : batch.outcome[i] # Unobserved
  /\ out.g_loss = PyFloat(0) /\ out.Q_loss = PyFloat(0)

\* C5: on a fully observed batch the masked labels partition the examples by
\* arm: an example with treatment 0 keeps its outcome in Y_T0 and has -100 in
\* Y_T1, an example with treatment 1 keeps it in Y_T1 and has -100 in Y_T0,
\* for every treatment assignment.
C5_MaskedLabelsPartition ==
  (call = "forward" /\ \A i \in DOMAIN batch.outcome : batch.outcome[i] # Unobserved) =>
    /\ exc = "none"
    /\ DOMAIN out.Y_T0_labels = DOMAIN batch.outcome
    /\ DOMAIN out.Y_T1_labels = DOMAIN batch.outcome
    /\ \A i \in DOMAIN batch.outcome :
         /\ batch.treatment[i] = 0 =>
              out.Y_T0_labels[i] = batch.outcome[i] /\ out.Y_T1_labels[i] = IgnoreIndex
         /\ batch.treatment[i] = 1 =>
              out.Y_T1_labels[i] = batch.outcome[i] /\ out.Y_T0_labels[i] = IgnoreIndex

C5_Witness ==
  /\ call = "forward" /\ exc = "none"
  /\ batch.outcome = <<1, 0>>
  /\ batch.treatment = <<0, 1>>
  /\ out.Y_T0_labels = <<1, IgnoreIndex>>
  /\ out.Y_T1_labels = <<IgnoreIndex, 0>>

\* C6, as stated: preds[i] is 0 if the accumulated T0 probability is larger
\* than the T1 probability and 1 otherwise, equal probabilities included.
C6_PredsOneUnlessT0Larger ==
  call \in EvalEnds /\ exc = "none" =>
    /\ Len(ret.preds) = Len(Q0s)
    /\ \A i \in DOMAIN ret.preds : ret.preds[i] = IF Q0s[i] > Q1s[i] THEN 0 ELSE 1

\* C6, amended: preds[i] is 1 if the accumulated T1 probability is larger
\* than the T0 probability and 0 otherwise; equal probabilities give 0.
C6_PredsZeroUnlessT1Larger ==
  call \in EvalEnds /\ exc = "none" =>
    /\ Len(ret.preds) = Len(Q0s)
    /\ \A i \in DOMAIN ret.preds : ret.preds[i] = IF Q1s[i] > Q0s[i] THEN 1 ELSE 0

C6_Witness ==
  /\ call \in EvalEnds /\ exc = "none"
  /\ \E i \in DOMAIN ret.preds : Q0s[i] = Q1s[i] /\ ret.preds[i] = 0
  /\ \E i \in DOMAIN ret.preds : Q0s[i] < Q1s[i] /\ ret.preds[i] = 1

\* C7: every training_step returns without raising, and on_train_epoch_end
\* after one or more training steps returns without raising and logs the
\* mean of the losses of the epoch's steps, also when steps ran on batches
\* with unobserved outcomes.
C7_TrainEpochCompletes ==
  [][/\ call' = "training_step" => exc' = "none"
     /\ (call' = "on_train_epoch_end" /\ losses # <<>>) =>
          LET n == Len(losses)
              S == SumSeq([k \in 1..n |-> losses[k].val])
          IN  /\ exc' = "none"
              /\ Len(logged') = 1
              /\ logged'[1].name = "train_epoch_loss"
              /\ IF \E k \in 1..n : losses[k].nan
                 THEN logged'[1].value.nan
                 ELSE /\ ~logged'[1].value.nan
                      /\ logged'[1].value.val * n <= S
                      /\ S < logged'[1].value.val * n + n]_vars

\* C8: for every width L = num_labels >= 2 and every confounder id, id 1
\* included, the confound vector of each example has width L and holds 0 at
\* index 1.
C8_ConfoundIndexOneZero ==
  call = "forward" =>
    /\ DOMAIN out.C = DOMAIN batch.confounds
    /\ \A i \in DOMAIN out.C : Len(out.C[i]) = cfg.num_labels /\ out.C[i][2] = 0

C8_Witness ==
  /\ call = "forward"
  /\ cfg.num_labels = 3
  /\ \E i \in DOMAIN batch.confounds : batch.confounds[i] = 1
  /\ \E i \in DOMAIN batch.confounds : batch.confounds[i] = 2

\* b with every confounder id replaced by 0.
ZeroConfounds(b) == [b EXCEPT !.confounds = [i \in DOMAIN b.confounds |-> 0]]

Returned(o) == <<o.g_prob, o.Q_prob_T0, o.Q_prob_T1, o.g_loss, o.Q_loss>>

\* C9: the confound vector is all zero, and two batches that differ only in
\* their confounder ids give, with the same parameters, the same g_prob,
\* Q_prob_T0, Q_prob_T1, g_loss and Q_loss.  Every batch is compared with
\* the batch that has id 0 in place of each of its ids: two batches that
\* differ only in their ids are compared with the same batch, and so agree.
C9_ConfounderIgnored ==
  call = "forward" =>
    /\ \A i \in DOMAIN out.C : \A k \in DOMAIN out.C[i] : out.C[i][k] = 0
    /\ Returned(share_step(ZeroConfounds(batch), params, cfg)) = Returned(out)

C9_Witness ==
  /\ call = "forward" /\ exc = "none"
  /\ batch.confounds = <<0, 1>>
  /\ out.Q_loss.kind = "tensor" /\ ~out.Q_loss.nan
  /\ out.Q_prob_T0[1] # out.Q_prob_T0[2]

\* The last n entries of s.
LastN(s, n) == [k \in 1..n |-> s[Len(s) - n + k]]

\* C10: Q0s and Q1s have the same length, the entries a step appended sit at
\* the same indices of both and are its Q_prob_T0 and Q_prob_T1;
\* training_step and on_train_epoch_end leave Q0s and Q1s unchanged, and
\* validation_step and predict_step leave losses unchanged.
C10_AccumulatorsAligned ==
  /\ [](/\ Len(Q0s) = Len(Q1s)
        /\ (call \in {"validation_step", "predict_step"} /\ exc = "none") =>
             /\ Len(Q0s) >= Len(out.Q_prob_T0)
             /\ LastN(Q0s, Len(out.Q_prob_T0)) = out.Q_prob_T0
             /\ LastN(Q1s, Len(out.Q_prob_T1)) = out.Q_prob_T1)
  /\ [][/\ call' \in {"training_step", "on_train_epoch_end"} =>
             Q0s' = Q0s /\ Q1s' = Q1s
        /\ call' \in {"validation_step", "predict_step"} => losses' = losses]_vars

C10_Witness ==
  /\ call = "on_train_epoch_end" /\ exc = "none"
  /\ Len(Q0s) >= 3
  /\ \E i \in DOMAIN Q0s : Q0s[i] # Q1s[i]

====
